---------------------------- MODULE Spec2Model ----------------------------
(***************************************************************************)
(* Energy-balance and cost engine of renewable-energy-storage-cost.        *)
(*                                                                         *)
(*   main.compute_profiles   raw demand/wind/solar series -> scaled supply,*)
(*                           surplus/deficit and storage balance           *)
(*   costs.compute           the older variant (no multiplier, no loss)    *)
(*   costdata.compute_lcoe   levelised cost of energy                      *)
(*                                                                         *)
(* Numbers.  Python floats and numpy float64 are modelled as extended      *)
(* rationals <<n, d>> in lowest terms with d >= 0:                         *)
(*     d > 0          the finite value n/d                                 *)
(*     <<1,0>>        +inf        <<-1,0>>  -inf        <<0,0>>  NaN       *)
(* Arithmetic on finite values is exact: the rounding of IEEE-754 doubles  *)
(* (relative 2^-53) is not modelled.  Only pow rounds: its running product *)
(* is kept to 1/PowScale, so that the parameters of the test file          *)
(* (20 periods at 3%) stay inside TLC's integers.                          *)
(***************************************************************************)
EXTENDS Integers, Sequences, FiniteSets, TLC

(***************************************************************************)
(* Bounds of the model.                                                    *)
(***************************************************************************)
\* longest raw series explored (periods, i.e. rows of the dataframe)
MaxLen == 4
\* largest project life explored, besides those of the test file
MaxPeriods == 2
\* longest raw series explored where compute_costs follows compute_profiles
MaxCostLen == 2
\* latest start_time and end_time of a paged demand call, in half days
MaxStart == 2
MaxEnd == 30
\* number of calls of the fetch functions in a run
MaxCalls == 3

(***************************************************************************)
(* float arithmetic                                                        *)
(***************************************************************************)
RECURSIVE GCD(_, _)
GCD(a, b) == IF b = 0 THEN a ELSE GCD(b, a % b)

IAbs(i) == IF i < 0 THEN -i ELSE i

Sign(i) == IF i > 0 THEN 1 ELSE IF i < 0 THEN -1 ELSE 0

\* the float n/d; a zero denominator gives inf, -inf or nan by the sign of n
Float(n, d) ==
    IF d = 0 THEN <<Sign(n), 0>>
    ELSE LET g == GCD(IAbs(n), IAbs(d))
             s == Sign(d)
         IN  <<(s * n) \div g, (s * d) \div g>>

NaN == <<0, 0>>
Inf == <<1, 0>>
Zero == <<0, 1>>
One == <<1, 1>>

IsNaN(x) == x = NaN
IsFinite(x) == x[2] > 0

Neg(x) == <<-x[1], x[2]>>

\* x + y : inf + -inf = nan, nan + y = nan
Add(x, y) ==
    IF IsNaN(x) \/ IsNaN(y) THEN NaN
    ELSE IF ~IsFinite(x) THEN (IF ~IsFinite(y) /\ y # x THEN NaN ELSE x)
    ELSE IF ~IsFinite(y) THEN y
    ELSE LET g == GCD(x[2], y[2])
         IN  Float(x[1] * (y[2] \div g) + y[1] * (x[2] \div g), (x[2] \div g) * y[2])

Sub(x, y) == Add(x, Neg(y))

\* x * y : 0 * inf = nan
Mul(x, y) ==
    IF IsNaN(x) \/ IsNaN(y) THEN NaN
    ELSE IF ~IsFinite(x) \/ ~IsFinite(y) THEN Float(Sign(x[1]) * Sign(y[1]), 0)
    ELSE LET g1 == GCD(IAbs(x[1]), y[2])
             g2 == GCD(IAbs(y[1]), x[2])
         IN  Float((x[1] \div g1) * (y[1] \div g2), (x[2] \div g2) * (y[2] \div g1))

\* numpy float64 x / y : x / 0 is inf, -inf or nan (a warning, not an exception)
Div(x, y) ==
    IF IsNaN(x) \/ IsNaN(y) THEN NaN
    ELSE IF ~IsFinite(y) THEN (IF IsFinite(x) THEN Zero ELSE NaN)
    ELSE IF y[1] = 0 THEN Float(Sign(x[1]), 0)
    ELSE IF ~IsFinite(x) THEN Float(Sign(x[1]) * Sign(y[1]), 0)
    ELSE Mul(x, Float(y[2], y[1]))

\* x < y : False when either is nan
Lt(x, y) ==
    IF IsNaN(x) \/ IsNaN(y) THEN FALSE
    ELSE IF ~IsFinite(x) \/ ~IsFinite(y)
         THEN x # y /\ (x = Neg(Inf) \/ y = Inf)
    ELSE LET fx == x[1] \div x[2]
             fy == y[1] \div y[2]
             g == GCD(x[2], y[2])
         IN  IF fx # fy THEN fx < fy
             ELSE (x[1] - fx * x[2]) * (y[2] \div g) < (y[1] - fy * y[2]) * (x[2] \div g)

\* x >= y : False when either is nan
Ge(x, y) == ~IsNaN(x) /\ ~IsNaN(y) /\ ~Lt(x, y)

Le(x, y) == Ge(y, x)

FAbs(x) == <<IAbs(x[1]), x[2]>>


(***************************************************************************)
(* pandas Series: a sequence of floats, one per period; the reductions     *)
(* skip NaN (skipna=True, the default).  An operator that returns a       *)
(* Series ends in \o <<>>, which leaves the value as it is and has TLC     *)
(* build the sequence once instead of at every access.                     *)
(***************************************************************************)
Series(ints) == [i \in 1..Len(ints) |-> Float(ints[i], 1)] \o <<>>

SeriesAdd(a, b) == [i \in 1..Len(a) |-> Add(a[i], b[i])] \o <<>>

SeriesSub(a, b) == [i \in 1..Len(a) |-> Sub(a[i], b[i])] \o <<>>

SeriesMul(a, k) == [i \in 1..Len(a) |-> Mul(a[i], k)] \o <<>>

SeriesDiv(a, k) == [i \in 1..Len(a) |-> Div(a[i], k)] \o <<>>

NotNaN(x) == ~IsNaN(x)

dropna(s) == SelectSeq(s, NotNaN)

fillna(s, v) == [i \in 1..Len(s) |-> IF IsNaN(s[i]) THEN v ELSE s[i]] \o <<>>

RECURSIVE RunningSum(_, _)
RunningSum(s, i) ==
    IF i = 0 THEN Zero
    ELSE Add(RunningSum(s, i - 1), IF IsNaN(s[i]) THEN Zero ELSE s[i])

\* Series.mean(): sum of the non-NaN values over their count; NaN when there are none
mean(s) ==
    LET v == dropna(s)
    IN  IF Len(v) = 0 THEN NaN ELSE Div(RunningSum(v, Len(v)), Float(Len(v), 1))

\* Series.cumsum(): running total of the non-NaN values, NaN where the value is NaN
cumsum(s) == [i \in 1..Len(s) |-> IF IsNaN(s[i]) THEN NaN ELSE RunningSum(s, i)] \o <<>>

RECURSIVE Least(_, _)
Least(s, i) ==
    IF i = 1 THEN s[1]
    ELSE LET m == Least(s, i - 1) IN IF Lt(s[i], m) THEN s[i] ELSE m

RECURSIVE Greatest(_, _)
Greatest(s, i) ==
    IF i = 1 THEN s[1]
    ELSE LET m == Greatest(s, i - 1) IN IF Lt(m, s[i]) THEN s[i] ELSE m

\* Series.min()
min(s) == LET v == dropna(s) IN IF Len(v) = 0 THEN NaN ELSE Least(v, Len(v))

\* Series.max()
max(s) == LET v == dropna(s) IN IF Len(v) = 0 THEN NaN ELSE Greatest(v, Len(v))

(***************************************************************************)
(* main.compute_profiles, statement by statement                           *)
(***************************************************************************)
\* df["supply_mw"] = df["wind_mw"] + df["solar_mw"]
Supply(wind, solar) == SeriesAdd(wind, solar)

\* (a slip: the multiplier divides)
EquivalentDemandDivided(demand, multiplier) == SeriesDiv(demand, multiplier)

\* equivalent_demand_mw = df.demand_mw * demand_multiplier
EquivalentDemand(demand, multiplier) == SeriesMul(demand, multiplier)

\* (a slip: the ratio upside down)
FactorInverted(equivalent_demand, supply) == Div(mean(supply), mean(equivalent_demand))

\* factor = mean_equivalent_demand_mw / mean_supply_mw
Factor(equivalent_demand, supply) == Div(mean(equivalent_demand), mean(supply))

\* df["supply_mult_mw"] = df["supply_mw"] * factor
SupplyMult(supply, f) == SeriesMul(supply, f)

\* the condition of: assert abs(df.demand_mw.mean() * demand_multiplier - df.supply_mult_mw.mean()) < 1
SanityCheck(demand, multiplier, supply_mult) ==
    Lt(FAbs(Sub(Mul(mean(demand), multiplier), mean(supply_mult))), One)

\* df["delta_mw"] = df["supply_mult_mw"] - df["equivalent_demand_mw"]
Delta(supply_mult, equivalent_demand) == SeriesSub(supply_mult, equivalent_demand)

\* (a slip: a zero delta left out of the surplus)
SurplusStrict(delta) == [i \in 1..Len(delta) |-> IF Lt(Zero, delta[i]) THEN delta[i] ELSE NaN]

\* df["surplus_mw"] = df["delta_mw"][df["delta_mw"] >= 0] : NaN in the rows left out
Surplus(delta) ==
    [i \in 1..Len(delta) |-> IF Ge(delta[i], Zero) THEN delta[i] ELSE NaN] \o <<>>

\* df["deficit_mw"] = df["delta_mw"][df["delta_mw"] < 0] : NaN in the rows left out
Deficit(delta) ==
    [i \in 1..Len(delta) |-> IF Lt(delta[i], Zero) THEN delta[i] ELSE NaN] \o <<>>

\* (a slip: the loss applied to every period, surplus too)
AdjustedEveryPeriod(surplus, deficit, loss) ==
    SeriesMul(SeriesAdd(fillna(surplus, Zero), fillna(deficit, Zero)), Add(One, loss))

\* (a slip: the fillna(0) forgotten)
AdjustedNoFill(surplus, deficit, loss) ==
    SeriesAdd(surplus, SeriesMul(deficit, Add(One, loss)))

\* (a slip: the loss shrinks the deficit)
AdjustedLossSubtracted(surplus, deficit, loss) ==
    SeriesAdd(fillna(surplus, Zero), SeriesMul(fillna(deficit, Zero), Sub(One, loss)))

\* adjusted_storage_balance_mw = surplus.fillna(0) + deficit.fillna(0) * (1 + battery_loss)
AdjustedStorageBalance(surplus, deficit, loss) ==
    SeriesAdd(fillna(surplus, Zero), SeriesMul(fillna(deficit, Zero), Add(One, loss)))

\* df["storage_balance_GWh"] = adjusted_storage_balance_mw.cumsum() * 24 / 1000
StorageBalance(adjusted) ==
    SeriesDiv(SeriesMul(cumsum(adjusted), Float(24, 1)), Float(1000, 1))

\* (a slip: the first day's balance taken as the zero level)
ShiftFromStart(balance) ==
    LET first == balance[1] IN [i \in 1..Len(balance) |-> Sub(balance[i], first)]

\* df["storage_balance_GWh"] = df["storage_balance_GWh"] - df["storage_balance_GWh"].min()
ShiftToZero(balance) ==
    LET lowest == min(balance)
    IN  [i \in 1..Len(balance) |-> Sub(balance[i], lowest)] \o <<>>

\* the storage_balance_GWh column compute_profiles returns for a raw dataframe
\* whose sanity check passed
storage_balance_GWh(raw, multiplier, loss) ==
    LET supply_mw == Supply(raw.wind_mw, raw.solar_mw)
        equivalent_demand_mw == EquivalentDemand(raw.demand_mw, multiplier)
        supply_mult_mw == SupplyMult(supply_mw, Factor(equivalent_demand_mw, supply_mw))
        delta_mw == Delta(supply_mult_mw, equivalent_demand_mw)
    IN  ShiftToZero(StorageBalance(
            AdjustedStorageBalance(Surplus(delta_mw), Deficit(delta_mw), loss)))

\* costdata.compute_costs: max_storage_gwh = df.storage_balance_GWh.max()
max_storage_gwh(balance) == max(balance)

(***************************************************************************)
(* costs.compute: the older variant, on the same raw data                  *)
(***************************************************************************)
compute(raw) ==
    LET supply_mw == SeriesAdd(raw.wind_mw, raw.solar_mw)
        multiplier == Div(mean(raw.demand_mw), mean(supply_mw))
        supply_mult_mw == SeriesMul(supply_mw, multiplier)
        delta_mw == SeriesSub(supply_mult_mw, raw.demand_mw)
        balance == SeriesDiv(SeriesMul(cumsum(delta_mw), Float(24, 1)), Float(1000, 1))
    IN  IF ~Lt(FAbs(Sub(mean(raw.demand_mw), mean(supply_mult_mw))), One)
        THEN [raised |-> "AssertionError"]
        ELSE [raised |-> "none",
              supply_mult_mw |-> supply_mult_mw,
              delta_mw |-> delta_mw,
              storage_balance_GWh |->
                  LET lowest == min(balance)
                  IN  [i \in 1..Len(balance) |-> Sub(balance[i], lowest)]]

(***************************************************************************)
(* costdata.compute_lcoe                                                   *)
(***************************************************************************)
\* pow keeps this many units per 1 (four decimal digits)
PowScale == 10 ^ 4

\* base^n in units of 1/PowScale, rounded after every multiplication
RECURSIVE PowMantissa(_, _)
PowMantissa(base, n) ==
    IF n = 0 THEN PowScale
    ELSE (2 * PowMantissa(base, n - 1) * base[1] + base[2]) \div (2 * base[2])

\* pow(base, n) for an int n; pow(0.0, n) with n < 0 raises and is not evaluated here
pow(base, n) ==
    IF n >= 0 THEN Float(PowMantissa(base, n), PowScale)
    ELSE Div(One, Float(PowMantissa(base, -n), PowScale))

\* crf = param.discount_rate * intermediate / (intermediate - 1)
CapitalRecoveryFactor(discount_rate, intermediate) ==
    Div(Mul(discount_rate, intermediate), Sub(intermediate, One))

\* (a slip: the capital cost left out of the annual cost)
LifeTimeCostNoCapital(capital_cost_kw, crf, fixed_OM_cost_kw_yr) ==
    Add(crf, fixed_OM_cost_kw_yr)

\* life_time_cost = param.capital_cost_kw * crf + param.fixed_OM_cost_kw_yr
LifeTimeCost(capital_cost_kw, crf, fixed_OM_cost_kw_yr) ==
    Add(Mul(capital_cost_kw, crf), fixed_OM_cost_kw_yr)

\* (a slip: a year of 360 days)
LifeTimeEnergy360(capacity_factor) == Mul(Float(24 * 360, 1), capacity_factor)

\* life_time_energy = 24 * 365 * param.capacity_factor
LifeTimeEnergy(capacity_factor) == Mul(Float(24 * 365, 1), capacity_factor)

ZeroDivisionError == [raised |-> "ZeroDivisionError", value |-> NaN]

\* compute_lcoe(param): the value returned, or the exception a Python float
\* operation raises (x / 0.0, 0.0 ** negative)
compute_lcoe(param) ==
    LET base == Add(One, param.discount_rate)
    IN  IF base = Zero /\ param.periods_years < 0 THEN ZeroDivisionError
        ELSE
        LET intermediate == pow(base, param.periods_years)
        IN  IF Sub(intermediate, One) = Zero THEN ZeroDivisionError
            ELSE
            LET crf == CapitalRecoveryFactor(param.discount_rate, intermediate)
                life_time_cost ==
                    LifeTimeCost(param.capital_cost_kw, crf, param.fixed_OM_cost_kw_yr)
                life_time_energy == LifeTimeEnergy(param.capacity_factor)
            IN  IF life_time_energy = Zero THEN ZeroDivisionError
                ELSE [raised |-> "none",
                      value |-> Div(Mul(Float(1000, 1), life_time_cost), life_time_energy)]

\* LCOEParams(...)
LCOEParams(periods_years, discount_rate, capital_cost_kw, capacity_factor, fixed_OM_cost_kw_yr) ==
    [periods_years |-> periods_years, discount_rate |-> discount_rate,
     capital_cost_kw |-> capital_cost_kw, capacity_factor |-> capacity_factor,
     fixed_OM_cost_kw_yr |-> fixed_OM_cost_kw_yr]

\* tests/test_lcoe.py
params1 == LCOEParams(20, Float(3, 100), Float(1250, 1), Float(1, 4), Float(25, 1))
params2 == LCOEParams(20, Float(3, 100), Float(2000, 1), Float(1, 2), Float(25, 1))
params3 == LCOEParams(10, Float(5, 100), Float(2000, 1), Float(1, 4), Float(25, 1))

\* the parametrize list of test_compute_lcoe: (params, expected)
TestCases == { <<params1, Float(50, 1)>>, <<params2, Float(36, 1)>>,
               <<params3, Float(130, 1)>> }

\* cost == approx(expected, abs=1)
approx(cost, expected) == Le(FAbs(Sub(cost, expected)), One)

(***************************************************************************)
(* costdata.compute_costs                                                  *)
(***************************************************************************)
\* (a slip: the wind share taken of mean demand)
WindFracOfDemand(d) == Div(mean(d.wind_mw), mean(d.demand_mw))

\* wind_frac = df.wind_mw.mean() / df.supply_mw.mean()
wind_frac(d) == Div(mean(d.wind_mw), mean(d.supply_mw))

\* solar_frac = df.solar_mw.mean() / df.supply_mw.mean()
solar_frac(d) == Div(mean(d.solar_mw), mean(d.supply_mw))

\* wind_mw = df.demand_mw.mean() * wind_frac, and solar_mw likewise
GenerationCapacity(d, frac) == Mul(mean(d.demand_mw), frac)

\* wind_cost = wind_mw * 1000 * lcoe_params_wind.capital_cost_kw, and solar_cost likewise
GenerationCost(capacity_mw, lcoe_params) ==
    Mul(Mul(capacity_mw, Float(1000, 1)), lcoe_params.capital_cost_kw)

\* (a slip: the battery price of __main__ instead of the argument)
StorageCostOfMain(storage_gwh, cost_kwh) ==
    Mul(Mul(Mul(storage_gwh, Float(1000, 1)), Float(1000, 1)), Float(200, 1))

\* storage_cost = max_storage_gwh * 1000 * 1000 * battery_cost_kwh
storage_cost(storage_gwh, cost_kwh) ==
    Mul(Mul(Mul(storage_gwh, Float(1000, 1)), Float(1000, 1)), cost_kwh)

\* round(x, 0) of a float: the nearest whole number, a tie going to the even one
round(x) ==
    IF ~IsFinite(x) THEN x
    ELSE LET q == x[1] \div x[2]
             r == x[1] - q * x[2]
         IN  IF 2 * r < x[2] THEN Float(q, 1)
             ELSE IF 2 * r > x[2] THEN Float(q + 1, 1)
             ELSE IF q % 2 = 0 THEN Float(q, 1) ELSE Float(q + 1, 1)

\* compute_costs(df, lcoe_params_wind, lcoe_params_solar, battery_cost_kwh): the
\* CostData returned, or the exception of compute_lcoe that passes through it
compute_costs(d, params_wind, params_solar, cost_kwh) ==
    LET wind_capacity == GenerationCapacity(d, wind_frac(d))
        solar_capacity == GenerationCapacity(d, solar_frac(d))
        lcoe_wind_mwh == compute_lcoe(params_wind)
        lcoe_solar_mwh == compute_lcoe(params_solar)
        storage_gwh == max_storage_gwh(d.storage_balance_GWh)
    IN  IF lcoe_wind_mwh.raised # "none" THEN [raised |-> lcoe_wind_mwh.raised]
        ELSE IF lcoe_solar_mwh.raised # "none" THEN [raised |-> lcoe_solar_mwh.raised]
        ELSE [raised |-> "none",
              wind_mw |-> wind_capacity,
              solar_mw |-> solar_capacity,
              lcoe_wind_mwh |-> round(lcoe_wind_mwh.value),
              lcoe_solar_mwh |-> round(lcoe_solar_mwh.value),
              wind_cost |-> GenerationCost(wind_capacity, params_wind),
              solar_cost |-> GenerationCost(solar_capacity, params_solar),
              storage_cost |-> storage_cost(storage_gwh, cost_kwh),
              max_storage_gwh |-> storage_gwh]

\* __main__: the assumptions
main_lcoe_params_wind == LCOEParams(30, Float(3, 100), Float(1300, 1), Float(1, 4), Float(28, 1))
main_lcoe_params_solar == LCOEParams(35, Float(3, 100), Float(400, 1), Float(1, 4), Float(67, 10))
main_battery_cost_kwh == Float(200, 1)

(***************************************************************************)
(* elexon.py, sheffield.py: fetching and caching the raw series.  Time is  *)
(* counted in half days; a series is known by the period it was fetched    *)
(* for and the request windows whose rows it holds.                        *)
(***************************************************************************)
\* timedelta(days=1)
Day == 2

\* (a slip: the next window begun where the last one ended)
NextStartAtEnd(end) == end

\* current_start_time = current_end_time + timedelta(days=1)
NextStart(end) == end + Day

\* current_end_time = current_start_time + timedelta(days=6)
NextEnd(start) == start + 6 * Day

\* the function whose cache file a fetch function uses: wind goes through all_fuels
Source(name) == IF name = "wind" THEN "all_fuels" ELSE name

\* (a variant: one cache file per period)
PicklePathOfPeriod(source, start, end) == <<source, start, end>>

\* the pickle file of a source: one fixed path, whatever the period
PicklePath(source, start, end) ==
    IF source = "all_fuels" THEN "data/generation_all_fuels_daily.pkl"
    ELSE IF source = "demand" THEN "data/elexon_demand_hourly.pkl"
    ELSE "data/sheffield_solar_half_hourly.pkl"

\* the dataframe built from the responses to the requests of a fetch
FetchedSeries(start, end, windows) ==
    [start_time |-> start, end_time |-> end, rows |-> windows]

(***************************************************************************)
(* State                                                                   *)
(***************************************************************************)
VARIABLES
    pc,                 \* where compute_profiles stands
    df,                 \* its dataframe: column name -> Series
    demand_multiplier,  \* argument of compute_profiles
    battery_loss,       \* argument of compute_profiles
    factor,             \* local of compute_profiles
    raised,             \* the exception compute_profiles ended with, or "none"
    costs_pc,           \* "idle", then "returned" or "raised" once costs.compute ran
    costs_df,           \* what costs.compute ended with
    lcoe_pc,            \* "idle", then "returned" or "raised" once compute_lcoe ran
    param,              \* argument of compute_lcoe
    lcoe,               \* the value compute_lcoe returned
    lcoe_raised,        \* the exception compute_lcoe ended with, or "none"
    expected,           \* the value test_compute_lcoe expects, NaN outside the test
    test,               \* "none", then "passed" or "failed" once the test's assert ran
    cost_pc,            \* "idle", then "returned" or "raised" once compute_costs ran
    lcoe_params_wind,   \* argument of compute_costs
    lcoe_params_solar,  \* argument of compute_costs
    battery_cost_kwh,   \* argument of compute_costs
    cost_data,          \* what compute_costs ended with
    fetch_pc,           \* "idle", "called", "paging", then "returned" or "raised"
    fetch,              \* the fetch function called: "wind", "demand" or "solar"
    start_time,         \* its argument
    end_time,           \* its argument
    from_disk,          \* its argument
    current_end_time,   \* local of demand: the end of the last window requested
    requests,           \* the windows <<from, to>> requested by the call so far
    result,             \* <<the series returned>>, or <<>>
    fetch_raised,       \* the exception the call ended with, or "none"
    disk,               \* pickle path -> the series stored in the file
    last_fetch,         \* source -> <<the period of its last fetch that was saved>>
    calls               \* number of calls made

profile_vars == <<pc, df, demand_multiplier, battery_loss, factor, raised, costs_pc, costs_df>>

lcoe_vars == <<lcoe_pc, param, lcoe, lcoe_raised, expected, test>>

cost_vars == <<cost_pc, lcoe_params_wind, lcoe_params_solar, battery_cost_kwh, cost_data>>

fetch_vars == <<fetch_pc, fetch, start_time, end_time, from_disk, current_end_time,
                requests, result, fetch_raised, disk, last_fetch, calls>>

vars == <<profile_vars, lcoe_vars, cost_vars, fetch_vars>>

\* the kinds of day get_data can deliver (daily means in MW): a calm dark day,
\* a windy day, a sunny day, a sunny day without demand, a day of nothing
Days == { [demand_mw |-> 2, wind_mw |-> 0, solar_mw |-> 0],
          [demand_mw |-> 2, wind_mw |-> 2, solar_mw |-> 0],
          [demand_mw |-> 2, wind_mw |-> 0, solar_mw |-> 1],
          [demand_mw |-> 0, wind_mw |-> 0, solar_mw |-> 1],
          [demand_mw |-> 0, wind_mw |-> 0, solar_mw |-> 0] }
\* the scenario arguments: the defaults of compute_profiles and those of __main__
Multipliers == {Float(1, 1), Float(3, 2)}
Losses == {Float(0, 1), Float(1, 10)}

\* the LCOE parameters explored besides those of the test file
PeriodsYears == -1..MaxPeriods
DiscountRates == {Float(-2, 1), Float(-1, 1), Float(0, 1), Float(3, 100), Float(1, 2)}
CapitalCosts == {Float(0, 1), Float(400, 1), Float(1300, 1)}
CapacityFactors == {Float(-1, 4), Float(0, 1), Float(1, 4), Float(1, 2), Float(1, 1)}
FixedOMCosts == {Float(0, 1), Float(25, 1)}

\* compute_lcoe has not been called
LcoeIdle ==
    /\ lcoe_pc = "idle"
    /\ lcoe = NaN
    /\ lcoe_raised = "none"
    /\ test = "none"

\* compute_costs has not been called; its arguments are those of __main__
CostsIdle ==
    /\ cost_pc = "idle"
    /\ lcoe_params_wind = main_lcoe_params_wind
    /\ lcoe_params_solar = main_lcoe_params_solar
    /\ battery_cost_kwh = main_battery_cost_kwh
    /\ cost_data = [raised |-> "none"]

\* no fetch function has been called; no pickle file exists
NoFiles == <<>>
Sources == {"all_fuels", "demand", "solar"}
FetchIdle ==
    /\ fetch_pc = "idle"
    /\ fetch = "demand"
    /\ start_time = 0
    /\ end_time = 0
    /\ from_disk = TRUE
    /\ current_end_time = 0
    /\ requests = <<>>
    /\ result = <<>>
    /\ fetch_raised = "none"
    /\ disk = NoFiles
    /\ last_fetch = [s \in Sources |-> <<>>]
    /\ calls = 0

\* the three raw columns of a dataframe
Raw(d) == [demand_mw |-> d.demand_mw, wind_mw |-> d.wind_mw, solar_mw |-> d.solar_mw]

\* get_data: the raw dataframe, one row per day
get_data ==
    \E n \in 1..MaxLen :
        \E rows \in [1..n -> Days] :
            df = [demand_mw |-> Series([i \in 1..n |-> rows[i].demand_mw]),
                  wind_mw |-> Series([i \in 1..n |-> rows[i].wind_mw]),
                  solar_mw |-> Series([i \in 1..n |-> rows[i].solar_mw])]

Init ==
    /\ get_data
    /\ demand_multiplier \in Multipliers
    /\ battery_loss \in Losses
    /\ pc = "supply"
    /\ factor = NaN
    /\ raised = "none"
    /\ costs_pc = "idle"
    /\ costs_df = [raised |-> "none"]
    /\ LcoeIdle
    /\ param = params1
    /\ expected = NaN
    /\ CostsIdle
    /\ FetchIdle

\* lines 76-86: total supply, scale factor, scaled supply
Scale ==
    /\ pc = "supply"
    /\ LET supply_mw == Supply(df.wind_mw, df.solar_mw)
           equivalent_demand_mw == EquivalentDemand(df.demand_mw, demand_multiplier)
           f == Factor(equivalent_demand_mw, supply_mw)
       IN  /\ factor' = f
           /\ df' = df @@ [supply_mw |-> supply_mw,
                           equivalent_demand_mw |-> equivalent_demand_mw,
                           supply_mult_mw |-> SupplyMult(supply_mw, f)]
    /\ pc' = "sanity"
    /\ UNCHANGED <<demand_multiplier, battery_loss, raised, costs_pc, costs_df, lcoe_vars, cost_vars, fetch_vars>>

\* line 89: the sanity check passes
SanityPass ==
    /\ pc = "sanity"
    /\ SanityCheck(df.demand_mw, demand_multiplier, df.supply_mult_mw)
    /\ pc' = "delta"
    /\ UNCHANGED <<df, demand_multiplier, battery_loss, factor, raised, costs_pc, costs_df, lcoe_vars, cost_vars, fetch_vars>>

\* line 89: the sanity check fails
SanityFail ==
    /\ pc = "sanity"
    /\ ~SanityCheck(df.demand_mw, demand_multiplier, df.supply_mult_mw)
    /\ pc' = "raised"
    /\ raised' = "AssertionError"
    /\ UNCHANGED <<df, demand_multiplier, battery_loss, factor, costs_pc, costs_df, lcoe_vars, cost_vars, fetch_vars>>

\* lines 91-94: surplus and deficit
SurplusDeficit ==
    /\ pc = "delta"
    /\ LET delta_mw == Delta(df.supply_mult_mw, df.equivalent_demand_mw)
       IN  df' = df @@ [delta_mw |-> delta_mw, surplus_mw |-> Surplus(delta_mw),
                        deficit_mw |-> Deficit(delta_mw)]
    /\ pc' = "balance"
    /\ UNCHANGED <<demand_multiplier, battery_loss, factor, raised, costs_pc, costs_df, lcoe_vars, cost_vars, fetch_vars>>

\* lines 107-110: the running balance
Balance ==
    /\ pc = "balance"
    /\ df' = df @@ [storage_balance_GWh |->
                      StorageBalance(AdjustedStorageBalance(df.surplus_mw, df.deficit_mw,
                                                            battery_loss))]
    /\ pc' = "shift"
    /\ UNCHANGED <<demand_multiplier, battery_loss, factor, raised, costs_pc, costs_df, lcoe_vars, cost_vars, fetch_vars>>

\* lines 112-116: the balance shifted so that its minimum is zero, and the return
Shift ==
    /\ pc = "shift"
    /\ df' = [df EXCEPT !.storage_balance_GWh = ShiftToZero(@)]
    /\ pc' = "done"
    /\ UNCHANGED <<demand_multiplier, battery_loss, factor, raised, costs_pc, costs_df, lcoe_vars, cost_vars, fetch_vars>>

\* costs.compute run on the same raw data once compute_profiles has ended
Compute ==
    /\ pc \in {"done", "raised"}
    /\ costs_pc = "idle"
    /\ costs_df' = compute(Raw(df))
    /\ costs_pc' = IF costs_df'.raised = "none" THEN "returned" ELSE "raised"
    /\ UNCHANGED <<pc, df, demand_multiplier, battery_loss, factor, raised, lcoe_vars, cost_vars, fetch_vars>>

Next == Scale \/ SanityPass \/ SanityFail \/ SurplusDeficit \/ Balance \/ Shift \/ Compute

Spec == Init /\ [][Next]_vars

(***************************************************************************)
(* compute_lcoe on its own: called with explored parameters, or by         *)
(* test_compute_lcoe with one of its three cases                           *)
(***************************************************************************)
InitLCOE ==
    /\ df = [demand_mw |-> <<>>, wind_mw |-> <<>>, solar_mw |-> <<>>]
    /\ demand_multiplier = One
    /\ battery_loss = Zero
    /\ pc = "idle"
    /\ factor = NaN
    /\ raised = "none"
    /\ costs_pc = "idle"
    /\ costs_df = [raised |-> "none"]
    /\ LcoeIdle
    /\ CostsIdle
    /\ FetchIdle
    /\ \/ /\ param \in { LCOEParams(n, i, c, cf, om) :
                            n \in PeriodsYears, i \in DiscountRates, c \in CapitalCosts,
                            cf \in CapacityFactors, om \in FixedOMCosts }
          /\ expected = NaN
       \/ \E case \in TestCases : param = case[1] /\ expected = case[2]

\* a call of compute_lcoe(param)
ComputeLcoe ==
    /\ lcoe_pc = "idle"
    /\ IsNaN(expected)
    /\ LET r == compute_lcoe(param)
       IN  /\ lcoe_pc' = IF r.raised = "none" THEN "returned" ELSE "raised"
           /\ lcoe' = r.value
           /\ lcoe_raised' = r.raised
    /\ UNCHANGED <<profile_vars, cost_vars, fetch_vars, param, expected, test>>

\* test_compute_lcoe(params, expected): the call and the assert
TestComputeLcoe ==
    /\ lcoe_pc = "idle"
    /\ ~IsNaN(expected)
    /\ LET r == compute_lcoe(param)
       IN  /\ lcoe_pc' = IF r.raised = "none" THEN "returned" ELSE "raised"
           /\ lcoe' = r.value
           /\ lcoe_raised' = r.raised
           /\ test' = IF r.raised = "none" /\ approx(r.value, expected)
                      THEN "passed" ELSE "failed"
    /\ UNCHANGED <<profile_vars, cost_vars, fetch_vars, param, expected>>

NextLCOE == ComputeLcoe \/ TestComputeLcoe

SpecLCOE == InitLCOE /\ [][NextLCOE]_vars

(***************************************************************************)
(* __main__: compute_profiles followed by compute_costs; also compute_costs *)
(* called with a derived dataframe that has no rows                        *)
(***************************************************************************)
\* days with a negative reading: negative demand, negative solar output
NegativeDays == { [demand_mw |-> -2, wind_mw |-> 2, solar_mw |-> 0],
                  [demand_mw |-> 2, wind_mw |-> 0, solar_mw |-> -1] }

\* the arguments explored for compute_costs besides those of __main__
WindParams == { main_lcoe_params_wind,
                [main_lcoe_params_wind EXCEPT !.discount_rate = Zero],
                [main_lcoe_params_wind EXCEPT !.capacity_factor = Float(-1, 4)] }
SolarParams == { main_lcoe_params_solar,
                 [main_lcoe_params_solar EXCEPT !.capacity_factor = Zero] }
BatteryCosts == { Float(100, 1), main_battery_cost_kwh }

\* a derived dataframe without rows
EmptyDerived ==
    [demand_mw |-> <<>>, wind_mw |-> <<>>, solar_mw |-> <<>>, supply_mw |-> <<>>,
     equivalent_demand_mw |-> <<>>, supply_mult_mw |-> <<>>, delta_mw |-> <<>>,
     surplus_mw |-> <<>>, deficit_mw |-> <<>>, storage_balance_GWh |-> <<>>]

InitCosts ==
    /\ \/ /\ \E n \in 1..MaxCostLen :
                \E rows \in [1..n -> Days \cup NegativeDays] :
                    df = [demand_mw |-> Series([i \in 1..n |-> rows[i].demand_mw]),
                          wind_mw |-> Series([i \in 1..n |-> rows[i].wind_mw]),
                          solar_mw |-> Series([i \in 1..n |-> rows[i].solar_mw])]
          /\ pc = "supply"
       \/ /\ df = EmptyDerived
          /\ pc = "done"
    /\ demand_multiplier \in Multipliers
    /\ battery_loss \in Losses
    /\ factor = NaN
    /\ raised = "none"
    /\ costs_pc = "idle"
    /\ costs_df = [raised |-> "none"]
    /\ LcoeIdle
    /\ param = params1
    /\ expected = NaN
    /\ CostsIdle
    /\ FetchIdle

\* compute_costs called on the dataframe compute_profiles returned
ComputeCosts ==
    /\ pc = "done"
    /\ cost_pc = "idle"
    /\ \E params_wind \in WindParams, params_solar \in SolarParams, cost_kwh \in BatteryCosts :
        /\ lcoe_params_wind' = params_wind
        /\ lcoe_params_solar' = params_solar
        /\ battery_cost_kwh' = cost_kwh
        /\ cost_data' = compute_costs(df, params_wind, params_solar, cost_kwh)
    /\ cost_pc' = IF cost_data'.raised = "none" THEN "returned" ELSE "raised"
    /\ UNCHANGED <<profile_vars, lcoe_vars, fetch_vars>>

NextCosts ==
    Scale \/ SanityPass \/ SanityFail \/ SurplusDeficit \/ Balance \/ Shift \/ ComputeCosts

SpecCosts == InitCosts /\ [][NextCosts]_vars

(***************************************************************************)
(* The fetch functions wind, demand and solar, called one after another     *)
(* with any period and any from_disk (get_data calls the three of them)    *)
(***************************************************************************)
\* the periods <<start_time, end_time>> the calls are made with
FetchPeriods == { <<0, Day>>, <<0, 8 * Day>>, <<Day, 9 * Day>> }

\* the profile and cost parts stand still while data is fetched
NoProfile ==
    /\ df = [demand_mw |-> <<>>, wind_mw |-> <<>>, solar_mw |-> <<>>]
    /\ demand_multiplier = One
    /\ battery_loss = Zero
    /\ pc = "idle"
    /\ factor = NaN
    /\ raised = "none"
    /\ costs_pc = "idle"
    /\ costs_df = [raised |-> "none"]
    /\ LcoeIdle
    /\ param = params1
    /\ expected = NaN
    /\ CostsIdle

InitFetch == NoProfile /\ FetchIdle

\* the path the call reads and writes
Path == PicklePath(Source(fetch), start_time, end_time)

\* a fetch function is called
Call ==
    /\ fetch_pc \in {"idle", "returned", "raised"}
    /\ calls < MaxCalls
    /\ \E name \in {"wind", "demand", "solar"}, period \in FetchPeriods, cached \in BOOLEAN :
        /\ fetch' = name
        /\ start_time' = period[1]
        /\ end_time' = period[2]
        /\ from_disk' = cached
    /\ fetch_pc' = "called"
    /\ calls' = calls + 1
    /\ current_end_time' = 0
    /\ requests' = <<>>
    /\ result' = <<>>
    /\ fetch_raised' = "none"
    /\ UNCHANGED <<disk, last_fetch, profile_vars, lcoe_vars, cost_vars>>

\* if from_disk: pd.read_pickle(path) of a file that exists
ReadPickle ==
    /\ fetch_pc = "called"
    /\ from_disk
    /\ Path \in DOMAIN disk
    /\ result' = <<disk[Path]>>
    /\ fetch_pc' = "returned"
    /\ UNCHANGED <<fetch, start_time, end_time, from_disk, current_end_time, requests,
                   fetch_raised, disk, last_fetch, calls, profile_vars, lcoe_vars, cost_vars>>

\* if from_disk: pd.read_pickle(path) of a file that does not exist
ReadPickleMissing ==
    /\ fetch_pc = "called"
    /\ from_disk
    /\ Path \notin DOMAIN disk
    /\ fetch_raised' = "FileNotFoundError"
    /\ fetch_pc' = "raised"
    /\ UNCHANGED <<fetch, start_time, end_time, from_disk, current_end_time, requests,
                   result, disk, last_fetch, calls, profile_vars, lcoe_vars, cost_vars>>

\* df.to_pickle(path) and return df
ToPickle(series) ==
    /\ disk' = (Path :> series) @@ disk
    /\ last_fetch' = [last_fetch EXCEPT ![Source(fetch)] = <<<<start_time, end_time>>>>]
    /\ result' = <<series>>
    /\ fetch_pc' = "returned"

\* all_fuels, solar: the one request for the whole period answered, the dataframe
\* built, saved and returned
Request ==
    /\ fetch_pc = "called"
    /\ ~from_disk
    /\ fetch \in {"wind", "solar"}
    /\ requests' = <<<<start_time, end_time>>>>
    /\ ToPickle(FetchedSeries(start_time, end_time, requests'))
    /\ UNCHANGED <<fetch, start_time, end_time, from_disk, current_end_time,
                   fetch_raised, calls, profile_vars, lcoe_vars, cost_vars>>

\* all_fuels, solar: the response is not ok; raising the str is a TypeError
RequestFail ==
    /\ fetch_pc = "called"
    /\ ~from_disk
    /\ fetch \in {"wind", "solar"}
    /\ requests' = <<<<start_time, end_time>>>>
    /\ fetch_raised' = "TypeError"
    /\ fetch_pc' = "raised"
    /\ UNCHANGED <<fetch, start_time, end_time, from_disk, current_end_time,
                   result, disk, last_fetch, calls, profile_vars, lcoe_vars, cost_vars>>

\* demand: current_end_time = start_time - timedelta(days=1)
StartPaging ==
    /\ fetch_pc = "called"
    /\ ~from_disk
    /\ fetch = "demand"
    /\ current_end_time' = start_time - Day
    /\ fetch_pc' = "paging"
    /\ UNCHANGED <<fetch, start_time, end_time, from_disk, requests, result,
                   fetch_raised, disk, last_fetch, calls, profile_vars, lcoe_vars, cost_vars>>

\* demand: one turn of the while loop, the response ok
Page ==
    /\ fetch_pc = "paging"
    /\ current_end_time < end_time
    /\ LET current_start_time == NextStart(current_end_time)
       IN  /\ current_end_time' = NextEnd(current_start_time)
           /\ requests' = Append(requests, <<current_start_time, current_end_time'>>)
    /\ UNCHANGED <<fetch_pc, fetch, start_time, end_time, from_disk, result,
                   fetch_raised, disk, last_fetch, calls, profile_vars, lcoe_vars, cost_vars>>

\* demand: one turn of the while loop, the response not ok
PageFail ==
    /\ fetch_pc = "paging"
    /\ current_end_time < end_time
    /\ LET current_start_time == NextStart(current_end_time)
       IN  /\ current_end_time' = NextEnd(current_start_time)
           /\ requests' = Append(requests, <<current_start_time, current_end_time'>>)
    /\ fetch_raised' = "TypeError"
    /\ fetch_pc' = "raised"
    /\ UNCHANGED <<fetch, start_time, end_time, from_disk, result,
                   disk, last_fetch, calls, profile_vars, lcoe_vars, cost_vars>>

\* demand: the loop has ended; the dataframe is built, saved and returned
PagingDone ==
    /\ fetch_pc = "paging"
    /\ ~(current_end_time < end_time)
    /\ ToPickle(FetchedSeries(start_time, end_time, requests))
    /\ UNCHANGED <<fetch, start_time, end_time, from_disk, current_end_time, requests,
                   fetch_raised, calls, profile_vars, lcoe_vars, cost_vars>>

NextFetch ==
    \/ Call \/ ReadPickle \/ ReadPickleMissing \/ Request \/ RequestFail
    \/ StartPaging \/ Page \/ PageFail \/ PagingDone

SpecFetch == InitFetch /\ [][NextFetch]_vars

(***************************************************************************)
(* demand(start_time, end_time, from_disk=False) on its own, for every     *)
(* period within the bounds                                                *)
(***************************************************************************)
InitPaging ==
    /\ NoProfile
    /\ fetch_pc = "called"
    /\ fetch = "demand"
    /\ start_time \in 0..MaxStart
    /\ end_time \in start_time..MaxEnd
    /\ from_disk = FALSE
    /\ current_end_time = 0
    /\ requests = <<>>
    /\ result = <<>>
    /\ fetch_raised = "none"
    /\ disk = NoFiles
    /\ last_fetch = [s \in Sources |-> <<>>]
    /\ calls = 1

NextPaging == StartPaging \/ Page \/ PageFail \/ PagingDone

SpecPaging == InitPaging /\ [][NextPaging]_vars

(***************************************************************************)
(* Properties of compute_profiles                                          *)
(***************************************************************************)
\* number of periods of the series
Periods == 1..Len(df.demand_mw)

\* the raw series is valid input: non-empty, every value finite and >= 0
ValidRaw ==
    /\ Len(df.demand_mw) >= 1
    /\ \A i \in Periods :
        /\ IsFinite(df.demand_mw[i]) /\ df.demand_mw[i][1] >= 0
        /\ IsFinite(df.wind_mw[i]) /\ df.wind_mw[i][1] >= 0
        /\ IsFinite(df.solar_mw[i]) /\ df.solar_mw[i][1] >= 0

\* wind = solar = 0 in every period
ZeroSupply == \A i \in Periods : df.wind_mw[i] = Zero /\ df.solar_mw[i] = Zero

\* valid input with mean(wind + solar) > 0
ValidInput == ValidRaw /\ ~ZeroSupply

HasScaled == pc \in {"sanity", "delta", "balance", "shift", "done"}
HasDelta == pc \in {"balance", "shift", "done"}

\* C1: for valid input with positive mean supply, the storage_balance_GWh column
\* compute_profiles returns has minimum exactly 0: every period's balance is >= 0
\* and some period's balance is 0.
C1_StorageFloor ==
    (pc = "done" /\ ValidInput) =>
        /\ min(df.storage_balance_GWh) = Zero
        /\ \A i \in Periods : Ge(df.storage_balance_GWh[i], Zero)
        /\ \E i \in Periods : df.storage_balance_GWh[i] = Zero

\* a returned series with lossy storage that both fills and empties
C1_Witness ==
    /\ pc = "done" /\ ValidInput /\ battery_loss = Float(1, 10)
    /\ Len(df.demand_mw) >= 3
    /\ df.storage_balance_GWh[1] # Zero
    /\ \E i \in Periods : Lt(Zero, df.storage_balance_GWh[i])
    /\ \E i \in Periods : df.storage_balance_GWh[i] = Zero

\* C2: for valid input with positive mean supply the sanity assertion never fires,
\* mean(supply_mult_mw) equals mean(equivalent_demand_mw) within absolute tolerance 1,
\* and the per-period deltas sum to zero within that tolerance.
C2_ScaleFactor ==
    ValidInput =>
        /\ raised = "none" /\ pc # "raised"
        /\ HasScaled =>
            Lt(FAbs(Sub(mean(df.supply_mult_mw), mean(df.equivalent_demand_mw))), One)
        /\ HasDelta => Lt(FAbs(RunningSum(df.delta_mw, Len(df.delta_mw))), One)

\* the assertion has passed on a series whose supply had to be scaled up, for
\* demand raised by the multiplier
C2_Witness ==
    /\ pc = "balance" /\ ValidInput
    /\ demand_multiplier = Float(3, 2)
    /\ Lt(One, factor)
    /\ \E i \in Periods : Lt(df.delta_mw[i], Zero)

\* max(d, 0) + min(d, 0) * (1 + loss): the net energy change of one period
NetChange(d, loss) ==
    IF Lt(d, Zero) THEN Mul(d, Add(One, loss)) ELSE d

\* R_i = 24/1000 * sum over k <= i of the net change of period k
RECURSIVE R(_, _, _)
R(delta, loss, i) ==
    IF i = 0 THEN Zero
    ELSE Add(R(delta, loss, i - 1), Mul(Float(24, 1000), NetChange(delta[i], loss)))

\* C3: every period's storage balance is R_i - min_j R_j, where R_i accumulates, in
\* chronological order, max(delta_k,0) + min(delta_k,0) * (1 + battery_loss) with
\* delta_k = supply_mult_mw_k - equivalent_demand_mw_k: only deficit periods carry the
\* loss and the shift is by the minimum over the whole series.
C3_BalanceRecurrence ==
    (pc = "done" /\ ValidInput) =>
        LET delta == [k \in Periods |->
                        Sub(df.supply_mult_mw[k], df.equivalent_demand_mw[k])]
            r == [i \in Periods |-> R(delta, battery_loss, i)] \o <<>>
        IN  \E j \in Periods :
                /\ \A k \in Periods : Le(r[j], r[k])
                /\ \A i \in Periods : df.storage_balance_GWh[i] = Sub(r[i], r[j])

\* a lossy run with a surplus period and a deficit period, the lowest raw balance
\* not in the last period
C3_Witness ==
    /\ pc = "done" /\ ValidInput /\ battery_loss = Float(1, 10)
    /\ \E i \in Periods : Lt(Zero, df.delta_mw[i])
    /\ \E i \in Periods : Lt(df.delta_mw[i], Zero)
    /\ \E i \in Periods : i < Len(df.demand_mw) /\ df.storage_balance_GWh[i] = Zero
    /\ df.storage_balance_GWh[Len(df.demand_mw)] # Zero

\* cumsum(delta_mw) * 24 / 1000 minus its minimum, computed directly
RECURSIVE DirectSum(_, _)
DirectSum(delta, i) == IF i = 0 THEN Zero ELSE Add(DirectSum(delta, i - 1), delta[i])

DirectBalance(delta) ==
    LET raw == [i \in 1..Len(delta) |->
                    Div(Mul(DirectSum(delta, i), Float(24, 1)), Float(1000, 1))] \o <<>>
    IN  [i \in 1..Len(delta) |->
            Sub(raw[i], CHOOSE m \in {raw[j] : j \in 1..Len(delta)} :
                            \A j \in 1..Len(delta) : Le(m, raw[j]))]

\* C4: with battery_loss = 0 the storage balance of compute_profiles equals, period
\* by period, cumsum(delta_mw) * 24 / 1000 minus its minimum; with demand_multiplier = 1
\* as well, costs.compute returns the same storage_balance_GWh on the same raw series.
C4_ZeroLoss ==
    (pc = "done" /\ ValidInput /\ battery_loss = Zero) =>
        /\ df.storage_balance_GWh = DirectBalance(df.delta_mw)
        /\ (demand_multiplier = One /\ costs_pc # "idle") =>
               /\ costs_pc = "returned"
               /\ costs_df.storage_balance_GWh = df.storage_balance_GWh

\* both functions have returned for the same lossless, unmultiplied scenario with
\* surplus and deficit periods
C4_Witness ==
    /\ pc = "done" /\ ValidInput /\ battery_loss = Zero /\ demand_multiplier = One
    /\ costs_pc = "returned"
    /\ \E i \in Periods : Lt(df.delta_mw[i], Zero)
    /\ \E i \in Periods : Lt(Zero, df.storage_balance_GWh[i])

\* the peak of the returned balance comes no later than a period in which it is empty
PeakBeforeEmpty ==
    \E i, j \in Periods :
        /\ i <= j
        /\ df.storage_balance_GWh[i] = max_storage_gwh(df.storage_balance_GWh)
        /\ df.storage_balance_GWh[j] = Zero

\* peak storage of the same raw series and multiplier under another loss
PeakAt(loss) == max_storage_gwh(storage_balance_GWh(Raw(df), demand_multiplier, loss))

\* C5 as claimed: for the same raw series and multiplier, a loss l2 >= l1 never gives
\* a smaller peak storage requirement than l1.
C5_LossMonotone ==
    (pc = "done" /\ ValidInput) =>
        \A l2 \in Losses :
            Le(battery_loss, l2) =>
                Le(max_storage_gwh(df.storage_balance_GWh), PeakAt(l2))

\* C5 amended: the peak never decreases when, at the smaller loss, the balance
\* peaks no later than a period in which it is empty.
C5_LossMonotoneFromPeak ==
    (pc = "done" /\ ValidInput /\ PeakBeforeEmpty) =>
        \A l2 \in Losses :
            Le(battery_loss, l2) =>
                Le(max_storage_gwh(df.storage_balance_GWh), PeakAt(l2))

\* a lossless run that peaks before it empties, whose peak a higher loss raises
C5_Witness ==
    /\ pc = "done" /\ ValidInput /\ PeakBeforeEmpty /\ battery_loss = Zero
    /\ Lt(max_storage_gwh(df.storage_balance_GWh), PeakAt(Float(1, 10)))

\* C6 as claimed: with wind = solar = 0 in every period the derivation ends with
\* ZeroSupplyError and returns no series.
C6_ZeroSupplyError ==
    (ValidRaw /\ ZeroSupply /\ pc \in {"done", "raised"}) =>
        (pc = "raised" /\ raised = "ZeroSupplyError")

CRF(i, n) ==
    LET growth == pow(Add(One, i), n)
    IN  Div(Mul(i, growth), Sub(growth, One))

\* 1000 * (capital_cost_kw * crf + fixed_OM_cost_kw_yr) / (8760 * capacity_factor)
LcoeFormula(p) ==
    Div(Mul(Float(1000, 1),
            Add(Mul(p.capital_cost_kw, CRF(p.discount_rate, p.periods_years)),
                p.fixed_OM_cost_kw_yr)),
        Mul(Float(8760, 1), p.capacity_factor))

\* C8: what compute_lcoe returns is 1000 * (capital_cost_kw * crf + fixed_OM_cost_kw_yr)
\* / (8760 * capacity_factor) with crf = i*(1+i)^n / ((1+i)^n - 1), and for the three
\* parameter sets of the test it is within 1 of 50, 36 and 130.
C8_LcoeFormula ==
    /\ lcoe_pc = "returned" => lcoe = LcoeFormula(param)
    /\ \A case \in TestCases :
           (lcoe_pc # "idle" /\ param = case[1]) =>
               /\ lcoe_pc = "returned"
               /\ Le(Sub(case[2], One), lcoe) /\ Le(lcoe, Add(case[2], One))
               /\ test = "passed"

\* the test has run on its first case (20 years at 3%)
C8_Witness ==
    /\ lcoe_pc = "returned" /\ param = params1 /\ test = "passed"
    /\ Lt(Float(49, 1), lcoe) /\ Lt(lcoe, Float(50, 1))

\* the documented domain of LCOEParams, with a discount rate above 0
InDomain(p) ==
    /\ p.periods_years > 0
    /\ Lt(Zero, p.discount_rate) /\ Lt(p.discount_rate, One)
    /\ Lt(Zero, p.capacity_factor) /\ Le(p.capacity_factor, One)
    /\ Ge(p.capital_cost_kw, Zero) /\ Ge(p.fixed_OM_cost_kw_yr, Zero)

\* a larger capital cost, all else equal, gives a strictly larger LCOE
CapitalCostRaises ==
    \A c \in CapitalCosts :
        Lt(param.capital_cost_kw, c) =>
            LET r == compute_lcoe([param EXCEPT !.capital_cost_kw = c])
            IN  r.raised = "none" /\ Lt(lcoe, r.value)

\* a larger capacity factor, all else equal, gives a strictly smaller LCOE
CapacityFactorLowers ==
    \A cf \in CapacityFactors :
        Lt(param.capacity_factor, cf) =>
            LET r == compute_lcoe([param EXCEPT !.capacity_factor = cf])
            IN  r.raised = "none" /\ Lt(r.value, lcoe)

C10_InvalidParameterError ==
    (lcoe_pc # "idle"
        /\ (Le(param.discount_rate, Float(-1, 1)) \/ param.periods_years <= 0
                \/ Le(param.capacity_factor, Zero))) =>
        (lcoe_pc = "raised" /\ lcoe_raised = "InvalidParameterError")

\* the documented domain of LCOEParams: periods_years > 0, 0 <= discount_rate < 1,
\* 0 < capacity_factor <= 1, costs >= 0
InDocumentedDomain(p) ==
    /\ p.periods_years > 0
    /\ Le(Zero, p.discount_rate) /\ Lt(p.discount_rate, One)
    /\ Lt(Zero, p.capacity_factor) /\ Le(p.capacity_factor, One)
    /\ Ge(p.capital_cost_kw, Zero) /\ Ge(p.fixed_OM_cost_kw_yr, Zero)

\* C11 as claimed: for every LCOEParams in the documented domain, discount_rate = 0
\* included, compute_lcoe does not fail and returns a finite value >= 0.
C11_DomainReturns ==
    (lcoe_pc # "idle" /\ InDocumentedDomain(param)) =>
        /\ lcoe_pc = "returned" /\ lcoe_raised = "none"
        /\ IsFinite(lcoe) /\ Ge(lcoe, Zero)

(***************************************************************************)
(* Properties of compute_costs                                             *)
(***************************************************************************)
\* C12 as claimed: compute_costs sizes wind and solar from the mean of the equivalent
\* demand (demand * demand_multiplier): wind_mw = mean(equivalent_demand_mw) *
\* mean(wind_mw) / mean(supply_mw), solar_mw likewise, and the capital costs follow.
C12_EquivalentDemandCapacity ==
    (cost_pc = "returned" /\ ValidInput) =>
        LET sized == mean(df.equivalent_demand_mw)
            wind == Mul(sized, Div(mean(df.wind_mw), mean(df.supply_mw)))
            solar == Mul(sized, Div(mean(df.solar_mw), mean(df.supply_mw)))
        IN  /\ cost_data.wind_mw = wind
            /\ cost_data.solar_mw = solar
            /\ cost_data.wind_cost =
                    Mul(Mul(wind, Float(1000, 1)), lcoe_params_wind.capital_cost_kw)
            /\ cost_data.solar_cost =
                    Mul(Mul(solar, Float(1000, 1)), lcoe_params_solar.capital_cost_kw)

\* the fields of CostData other than storage_cost
OtherFields(c) ==
    <<c.wind_mw, c.solar_mw, c.lcoe_wind_mwh, c.lcoe_solar_mwh, c.wind_cost,
      c.solar_cost, c.max_storage_gwh>>

\* C13: with the derived series and both LCOEParams fixed, compute_costs at twice the
\* battery_cost_kwh returns exactly twice the storage_cost, which is
\* max(storage_balance_GWh) * 10^6 * battery_cost_kwh, and every other field unchanged.
C13_StorageCostDoubles ==
    (cost_pc = "returned" /\ Len(df.storage_balance_GWh) >= 1) =>
        LET twice == compute_costs(df, lcoe_params_wind, lcoe_params_solar,
                                   Mul(Float(2, 1), battery_cost_kwh))
        IN  /\ twice.raised = "none"
            /\ twice.storage_cost = Mul(Float(2, 1), cost_data.storage_cost)
            /\ cost_data.storage_cost =
                    Mul(Mul(max(df.storage_balance_GWh), Float(10 ^ 6, 1)), battery_cost_kwh)
            /\ OtherFields(twice) = OtherFields(cost_data)

\* costs returned at half the battery price of __main__ for a series that needs storage
C13_Witness ==
    /\ cost_pc = "returned"
    /\ battery_cost_kwh = Float(100, 1)
    /\ Len(df.storage_balance_GWh) = 2
    /\ Lt(Zero, cost_data.max_storage_gwh)
    /\ Lt(Zero, cost_data.storage_cost)

\* parameters compute_lcoe is documented to reject
InvalidParams(p) ==
    \/ Le(p.discount_rate, Float(-1, 1))
    \/ p.periods_years <= 0
    \/ Le(p.capacity_factor, Zero)

\* some field of a returned CostData is NaN
SomeFieldNaN(c) ==
    \/ \E i \in 1..7 : IsNaN(OtherFields(c)[i])
    \/ IsNaN(c.storage_cost)

\* C14 as claimed: on a derived series without periods compute_costs ends with
\* EmptySeriesError, on invalid LCOE parameters with InvalidParameterError, and it
\* never returns a CostData with a NaN field.
C14_ErrorsNoPartial ==
    (cost_pc # "idle") =>
        /\ Len(df.demand_mw) = 0 =>
                (cost_pc = "raised" /\ cost_data.raised = "EmptySeriesError")
        /\ (Len(df.demand_mw) > 0
                /\ (InvalidParams(lcoe_params_wind) \/ InvalidParams(lcoe_params_solar))) =>
                (cost_pc = "raised" /\ cost_data.raised = "InvalidParameterError")
        /\ cost_pc = "returned" => ~SomeFieldNaN(cost_data)

NegativeRaw ==
    \E i \in Periods :
        \/ Lt(df.demand_mw[i], Zero)
        \/ Lt(df.wind_mw[i], Zero)
        \/ Lt(df.solar_mw[i], Zero)

\* C15 as claimed: with a negative raw value of demand, wind or solar compute_profiles
\* ends with InvalidInputError before it has produced any derived field, and returns
\* no derived series.
C15_InvalidInputError ==
    NegativeRaw =>
        /\ pc \in {"supply", "raised"}
        /\ pc = "raised" => raised = "InvalidInputError"
        /\ DOMAIN df = {"demand_mw", "wind_mw", "solar_mw"}

\* the value a masked column contributes to the balance
OrZero(x) == IF IsNaN(x) THEN Zero ELSE x

\* C16: every period is classified exactly once: surplus_mw has a value iff
\* delta_mw >= 0 (zero included), deficit_mw has a value iff delta_mw < 0, the missing
\* side counts as 0 in the balance, surplus-or-0 plus deficit-or-0 is delta_mw, and a
\* surplus present is >= 0, a deficit present < 0.
C16_SurplusDeficitPartition ==
    HasDelta =>
        LET adjusted == AdjustedStorageBalance(df.surplus_mw, df.deficit_mw, battery_loss)
        IN  \A i \in Periods :
                /\ ~IsNaN(df.surplus_mw[i]) <=> Ge(df.delta_mw[i], Zero)
                /\ ~IsNaN(df.deficit_mw[i]) <=> Lt(df.delta_mw[i], Zero)
                /\ IsNaN(df.surplus_mw[i]) # IsNaN(df.deficit_mw[i])
                /\ Add(OrZero(df.surplus_mw[i]), OrZero(df.deficit_mw[i])) = df.delta_mw[i]
                /\ ~IsNaN(df.surplus_mw[i]) => Ge(df.surplus_mw[i], Zero)
                /\ ~IsNaN(df.deficit_mw[i]) => Lt(df.deficit_mw[i], Zero)
                /\ adjusted[i] = IF IsNaN(df.deficit_mw[i]) THEN df.surplus_mw[i]
                                 ELSE Mul(df.deficit_mw[i], Add(One, battery_loss))

\* a series with a period of surplus, one of deficit and one of zero delta
C16_Witness ==
    /\ pc = "balance"
    /\ \E i \in Periods : Lt(Zero, df.delta_mw[i]) /\ df.surplus_mw[i] = df.delta_mw[i]
    /\ \E i \in Periods : Lt(df.delta_mw[i], Zero) /\ df.deficit_mw[i] = df.delta_mw[i]
    /\ \E i \in Periods : df.delta_mw[i] = Zero /\ df.surplus_mw[i] = Zero

(***************************************************************************)
(* Properties of the fetch functions                                       *)
(***************************************************************************)
\* a call of demand that pages through the API, for a period that is not empty
DemandPaging == fetch = "demand" /\ ~from_disk /\ start_time <= end_time

Windows == 1..Len(requests)

\* the number of 7-day strides from start_time - 1 day that reach end_time
PagesNeeded == (end_time - start_time + Day + 7 * Day - 1) \div (7 * Day)

\* the loop ends: it never makes more requests than needed, and while the call has
\* not ended a next step exists
PagingTerminates ==
    /\ Len(requests) <= PagesNeeded
    /\ fetch_pc \in {"called", "paging"} => ENABLED NextPaging

\* C18 as claimed: for start_time <= end_time the paging loop of demand terminates;
\* its windows [from, to] come in strictly increasing order, the first from being
\* start_time; no two overlap; every instant of [start_time, end_time] lies inside some
\* window; and no window extends past end_time.
C18_WindowsCoverPeriod ==
    DemandPaging =>
        /\ PagingTerminates
        /\ requests # <<>> => requests[1][1] = start_time
        /\ \A i \in Windows, j \in Windows :
                i < j => requests[i][1] < requests[j][1] /\ requests[i][2] < requests[j][1]
        /\ fetch_pc = "returned" =>
                \A t \in start_time..end_time :
                    \E i \in Windows : requests[i][1] <= t /\ t <= requests[i][2]
        /\ \A i \in Windows : requests[i][2] <= end_time

\* C18 amended: the loop terminates after ceil((end_time - start_time + 1 day) / 7 days)
\* requests; the first from is start_time, every window is 6 days long and every next
\* from is one day after the last to, so the windows increase and do not overlap; every
\* instant of [start_time, end_time] lies inside a window or in the day between one
\* window's to and the next from; the last window ends at or after end_time, less than
\* 7 days after it, and every earlier one ends before end_time.
C18_WeeklyWindows ==
    DemandPaging =>
        /\ PagingTerminates
        /\ requests # <<>> => requests[1][1] = start_time
        /\ \A i \in Windows : requests[i][2] = requests[i][1] + 6 * Day
        /\ \A i \in Windows, j \in Windows :
                /\ j = i + 1 => requests[j][1] = requests[i][2] + Day
                /\ i < j => requests[i][1] < requests[j][1] /\ requests[i][2] < requests[j][1]
                /\ i < j => requests[i][2] < end_time
        /\ \A i \in Windows : requests[i][2] < end_time + 7 * Day
        /\ fetch_pc = "returned" =>
                /\ Len(requests) = PagesNeeded
                /\ requests[Len(requests)][2] >= end_time
                /\ \A t \in start_time..end_time :
                       \/ \E i \in Windows : requests[i][1] <= t /\ t <= requests[i][2]
                       \/ \E i \in Windows :
                            i < Len(requests) /\ requests[i][2] < t /\ t < requests[i + 1][1]

\* demand has returned after three windows for a period that starts at noon; the
\* last window reaches past end_time and an instant of the period falls between two
\* windows
C18_Witness ==
    /\ DemandPaging /\ fetch_pc = "returned"
    /\ start_time = 1
    /\ Len(requests) = 3
    /\ requests[3][2] > end_time
    /\ \E t \in start_time..end_time : requests[1][2] < t /\ t < requests[2][1]

\* every pickle file holds the series of the last saved fetch of its source, and
\* no other file exists
DiskHoldsLastFetch ==
    /\ \A s \in Sources :
            last_fetch[s] # <<>> =>
                LET period == last_fetch[s][1]
                    path == PicklePath(s, period[1], period[2])
                IN  /\ path \in DOMAIN disk
                    /\ disk[path].start_time = period[1]
                    /\ disk[path].end_time = period[2]
    /\ \A path \in DOMAIN disk :
            \E s \in Sources :
                /\ last_fetch[s] # <<>>
                /\ path = PicklePath(s, last_fetch[s][1][1], last_fetch[s][1][2])

=============================================================================
